---- MODULE Spec2Model ----
(***************************************************************************)
(* A-Z Globe multi-service platform: the services router                   *)
(* (routes/services.js), the auth middleware (middleware/auth.js) and the  *)
(* Service / User models, as a state machine over the two collections.     *)
(*                                                                         *)
(* A JS object is a function whose domain is the set of keys it carries;   *)
(* a missing key is a key outside the domain.  A string whose content      *)
(* does not matter is the record [pad, len]: len non-blank characters      *)
(* between pad blanks on either side.  A city name or a ?city= text is a   *)
(* sequence of one-character strings.                                      *)
(*                                                                         *)
(* req and res are the request served and its response when the requests  *)
(* are served one at a time; calls are the handlers in progress when       *)
(* several clients are served at once, each stopped at one of its awaits.  *)
(***************************************************************************)
EXTENDS Integers, Sequences, FiniteSets, TLC

VARIABLES users, services, req, res, calls

vars == <<users, services, req, res, calls>>

(***************************************************************************)
(* Bounds of the model.                                                    *)
(***************************************************************************)
\* the view counter is capped: a read that would raise it past the cap is not issued
MaxViews == 2

\* bcrypt is applied at most this many times on top of a password: a save that would
\* hash once more is not issued
MaxHashes == 3

(***************************************************************************)
(* Users (models/User.js) and tokens (jsonwebtoken).                       *)
(***************************************************************************)
UserIds == {"u1", "u2", "u3", "u4"}

\* userType enum and the isVerified / isActive flags of the user schema
UserTypes == {"customer", "service_provider", "admin"}

\* the accounts of the model: two verified providers, a customer, an unverified provider
InitUsers ==
  [u \in UserIds |->
     [userType   |-> IF u = "u3" THEN "customer" ELSE "service_provider",
      isVerified |-> u # "u4",
      isActive   |-> TRUE]]

\* generateAuthToken: jwt.sign({id, userType}, JWT_SECRET): the token issued to user u
generateAuthToken(u) == "t_" \o u

\* a token that jwt.verify rejects (bad signature, expired, malformed)
BadToken == "t_bad"

Tokens == {generateAuthToken(u) : u \in UserIds} \cup {BadToken}

\* jwt.verify(token, JWT_SECRET): the decoded id, or "" when verify throws
jwtVerify(token) ==
  IF \E u \in UserIds : generateAuthToken(u) = token
    THEN CHOOSE u \in UserIds : generateAuthToken(u) = token
    ELSE ""

\* the Authorization header: scheme "" is no header; cred "" is a header with no second word
NoHeader == [scheme |-> "", cred |-> ""]

Headers ==
  {NoHeader, [scheme |-> "Basic", cred |-> "x"], [scheme |-> "Bearer", cred |-> ""]}
    \cup {[scheme |-> "Bearer", cred |-> t] : t \in Tokens}

\* the token cookie: "" is no cookie
Cookies == {""} \cup Tokens

\* protect / optionalAuth: the token the middleware reads off the request
selectToken(hdr, cookie) ==
  IF hdr.scheme = "Bearer" THEN hdr.cred
  ELSE IF cookie # "" THEN cookie
  ELSE ""

\* a protect that does not look at the active flag
protectIgnoresActive(hdr, cookie, usrs) ==
  LET token == selectToken(hdr, cookie)
      id    == jwtVerify(token)
  IN  IF token = "" \/ id = "" \/ id \notin DOMAIN usrs
        THEN [status |-> 401, user |-> ""]
        ELSE [status |-> 0, user |-> id]

\* protect: 0 and the user's id when next() is called, else the status answered
protect(hdr, cookie, usrs) ==
  LET token == selectToken(hdr, cookie)
      id    == jwtVerify(token)
  IN  IF token = "" THEN [status |-> 401, user |-> ""]
      ELSE IF id = "" THEN [status |-> 401, user |-> ""]
      ELSE IF id \notin DOMAIN usrs THEN [status |-> 401, user |-> ""]
      ELSE IF ~usrs[id].isActive THEN [status |-> 401, user |-> ""]
      ELSE [status |-> 0, user |-> id]

\* optionalAuth: the user attached to the request, "" when none
optionalAuth(hdr, cookie, usrs) ==
  LET token == selectToken(hdr, cookie)
      id    == jwtVerify(token)
  IN  IF token # "" /\ id # "" /\ id \in DOMAIN usrs /\ usrs[id].isActive
        THEN id ELSE ""

\* a gate that lets every role through
requireServiceProviderAnyRole(u, usrs) == 0

\* authorize(...userTypes): 0 when next() is called, else the status answered
authorize(userTypes, u, usrs) ==
  IF u = "" THEN 401
  ELSE IF usrs[u].userType \notin userTypes THEN 403
  ELSE 0

\* The require* gates read req.user.<field> with no test of req.user: with no
\* user on the request the read throws a TypeError, which express hands to the
\* error-handling middleware of server.js, and that answers 500.

\* requireServiceProvider: 0 when next() is called, else the status answered
requireServiceProvider(u, usrs) ==
  IF u = "" THEN 500
  ELSE IF usrs[u].userType # "service_provider" THEN 403 ELSE 0

\* requireVerification: 0 when next() is called, else the status answered
requireVerification(u, usrs) ==
  IF u = "" THEN 500
  ELSE IF ~usrs[u].isVerified THEN 403 ELSE 0

\* requireCustomer: 0 when next() is called, else the status answered
requireCustomer(u, usrs) ==
  IF u = "" THEN 500
  ELSE IF usrs[u].userType # "customer" THEN 403 ELSE 0

\* requireAdmin: 0 when next() is called, else the status answered
requireAdmin(u, usrs) ==
  IF u = "" THEN 500
  ELSE IF usrs[u].userType # "admin" THEN 403 ELSE 0

(***************************************************************************)
(* Strings and the express-validator checks.                               *)
(***************************************************************************)
Str(p, n) == [pad |-> p, len |-> n]

\* String.prototype.trim / the trim() sanitizer
trim(s) == [s EXCEPT !.pad = 0]

\* the number of characters of the string
length(s) == s.len + 2 * s.pad

\* isLength({min, max})
isLength(s, min, max) == length(s) >= min /\ length(s) <= max

TitleMin == 5
TitleMax == 100
DescriptionMin == 20
DescriptionMax == 1000

\* the category enum of the create validator and of the schema
Categories ==
  {"home_services", "automotive", "healthcare", "education", "technology",
   "beauty_wellness", "professional_services", "entertainment", "maintenance",
   "consulting", "other"}

\* the pricing.type enum of the create validator and of the schema
PricingTypes == {"fixed", "hourly", "per_unit", "negotiable"}

\* the status enum of the schema
Statuses == {"active", "inactive", "suspended", "pending_review"}

has(obj, key) == key \in DOMAIN obj

\* the object with key set to value (obj[key] = value)
set(obj, key, value) == (key :> value) @@ obj

\* an object with no key
EmptyObject == [k \in {} |-> ""]

\* the JSON value null
Null == [null |-> TRUE]

\* the value as an if or an || reads it; the values of the model are objects, non-empty
\* arrays and strings apart, so only null and the empty string are falsy
truthy(v) == v # Null /\ v # Str(0, 0)

\* the string a validator checks: null and a missing field read as the empty string
text(obj, key) == IF has(obj, key) /\ obj[key] # Null THEN obj[key] ELSE Str(0, 0)

\* a member of a nested object, undefined (here null) when the object is missing or null
field(obj, key) == IF has(obj, key) /\ obj[key] # Null THEN obj[key] ELSE Null

\* the validators of router.post('/'): the fields express-validator reports
createErrors(body) ==
  {f \in {"title", "description", "category", "pricing.type", "pricing.amount",
          "serviceArea.cities"} :
     \/ f = "title"
        /\ ~isLength(trim(text(body, "title")), TitleMin, TitleMax)
     \/ f = "description"
        /\ ~isLength(trim(text(body, "description")), DescriptionMin, DescriptionMax)
     \/ f = "category"
        /\ ~(has(body, "category") /\ body.category \in Categories)
     \/ f = "pricing.type"
        /\ ~(field(body, "pricing") # Null /\ body.pricing.type \in PricingTypes)
     \/ f = "pricing.amount"
        /\ ~(field(body, "pricing") # Null /\ body.pricing.amount >= 0)
     \/ f = "serviceArea.cities"
        /\ ~(field(body, "serviceArea") # Null /\ Len(body.serviceArea.cities) >= 1)}

\* the validators of router.put('/:id'): optional() skips a field that is not sent
updateErrors(body) ==
  {f \in {"title", "description", "pricing.amount"} :
     \/ f = "title"
        /\ has(body, "title") /\ ~isLength(trim(text(body, "title")), TitleMin, TitleMax)
     \/ f = "description"
        /\ has(body, "description")
        /\ ~isLength(trim(text(body, "description")), DescriptionMin, DescriptionMax)
     \/ f = "pricing.amount"
        /\ field(body, "pricing") # Null /\ ~(body.pricing.amount >= 0)}

\* the trim() sanitizers write the trimmed value back into req.body
sanitize(body) ==
  [k \in DOMAIN body |->
     IF k \in {"title", "description"} THEN trim(text(body, k)) ELSE body[k]]

(***************************************************************************)
(* The Service schema (models/Service.js).                                 *)
(***************************************************************************)
\* the paths of the schema the model keeps
SchemaPaths ==
  {"provider", "title", "description", "category", "pricing", "serviceArea",
   "qualityRating", "isVerified", "status", "isFeatured", "featuredUntil",
   "viewCount", "createdAt"}

\* the schema defaults; featuredUntil 0 is no date
SchemaDefaults ==
  [provider      |-> "",
   title         |-> Str(0, 0),
   description   |-> Str(0, 0),
   category      |-> "",
   pricing       |-> [type |-> "", amount |-> 0],
   serviceArea   |-> [cities |-> <<>>],
   qualityRating |-> [average |-> 0, count |-> 0],
   isVerified    |-> FALSE,
   status        |-> "pending_review",
   isFeatured    |-> FALSE,
   featuredUntil |-> 0,
   viewCount     |-> 0,
   createdAt     |-> 0]

\* new Service(data): the paths of the schema, from data where it has them, else the default
newService(data) ==
  [k \in SchemaPaths |-> IF has(data, k) THEN data[k] ELSE SchemaDefaults[k]]

\* the schema validators run by findByIdAndUpdate(..., {runValidators: true}): on the
\* schema paths the update sets; a nested object set to null has no path of its own
updateValidatorsPass(update) ==
  /\ has(update, "title") => length(update.title) <= TitleMax
  /\ has(update, "description") => length(update.description) <= DescriptionMax
  /\ field(update, "pricing") # Null =>
       update.pricing.type \in PricingTypes /\ update.pricing.amount >= 0

\* Date.now at creation: later than the creation time of every stored listing
now(svcs) ==
  LET times == {svcs[i].createdAt : i \in DOMAIN svcs} \cup {0}
  IN  1 + CHOOSE t \in times : \A u \in times : u <= t

\* a stored listing as a response carries it
view(svcs, id) == [id |-> id, doc |-> svcs[id]]

NoPagination ==
  [currentPage |-> 0, totalPages |-> 0, totalServices |-> 0,
   hasNextPage |-> FALSE, hasPrevPage |-> FALSE]

\* res.status(code).json(...)
Reply(code, message) ==
  [status |-> code, message |-> message, errors |-> {}, services |-> <<>>,
   pagination |-> NoPagination, categories |-> <<>>]

Out(svcs, r) == [services |-> svcs, res |-> r]

(***************************************************************************)
(* router.post('/')                                                        *)
(***************************************************************************)
\* a create that keeps the status the client sent
serviceDataClientStatus(body, user) ==
  set(IF has(body, "status") THEN body ELSE set(body, "status", "pending_review"),
      "provider", user)

\* serviceData = {...req.body, provider: req.user._id, status: 'pending_review'}
serviceData(body, user) ==
  set(set(body, "provider", user), "status", "pending_review")

createService(hdr, cookie, body, usrs, svcs, newId) ==
  LET auth == protect(hdr, cookie, usrs)
      errors == createErrors(body)
      doc == newService(set(serviceData(sanitize(body), auth.user), "createdAt", now(svcs)))
      saved == set(svcs, newId, doc)
  IN  IF auth.status # 0 THEN Out(svcs, Reply(auth.status, "Not authorized"))
      ELSE IF requireServiceProvider(auth.user, usrs) # 0
        THEN Out(svcs, Reply(403, "only accessible to service providers"))
      ELSE IF requireVerification(auth.user, usrs) # 0
        THEN Out(svcs, Reply(403, "Account verification required"))
      ELSE IF errors # {}
        THEN Out(svcs, [Reply(400, "") EXCEPT !.errors = errors])
      ELSE Out(saved, [Reply(201, "Service created successfully and pending review")
                         EXCEPT !.services = <<view(saved, newId)>>])

(***************************************************************************)
(* Ids and the Mongo queries.                                              *)
(***************************************************************************)
\* the ids create can hand out
ServiceIds == {"s1"}

\* a well-formed ObjectId that names no listing
UnknownId == "s0"

\* the strings Mongoose can cast to an ObjectId; any other makes the query throw a CastError
isObjectId(s) == s \in ServiceIds \cup {UnknownId} \cup UserIds

Min(a, b) == IF a <= b THEN a ELSE b

\* the case-insensitive comparison of two characters ($options: 'i')
lower(c) == IF c = "A" THEN "a" ELSE IF c = "B" THEN "b" ELSE c

\* a pattern the regex engine rejects: the query throws
validRegex(pat) == \A i \in 1..Len(pat) : pat[i] # "("

\* {$regex: pat, $options: 'i'} on one string: the pattern matches somewhere in it,
\* "." matching any character
regexTest(pat, str) ==
  \E start \in 0..(Len(str) - Len(pat)) :
    \A j \in 1..Len(pat) : pat[j] = "." \/ lower(pat[j]) = lower(str[start + j])

\* the filter object of router.get('/') applied to one document
matchesFilter(doc, q) ==
  /\ doc.status = "active"
  /\ doc.isVerified = TRUE
  /\ (has(q, "category") /\ q.category # "") => doc.category = q.category
  /\ (has(q, "city") /\ q.city # <<>>) =>
       \E i \in 1..Len(doc.serviceArea.cities) : regexTest(q.city, doc.serviceArea.cities[i])
  /\ has(q, "minPrice") => doc.pricing # Null /\ doc.pricing.amount >= q.minPrice
  /\ has(q, "maxPrice") => doc.pricing # Null /\ doc.pricing.amount <= q.maxPrice
  /\ has(q, "rating") => doc.qualityRating.average >= q.rating

\* the sort object of router.get('/') as a key to sort ascending by
sortKey(doc, sort) ==
  CASE sort = "price_asc"   -> doc.pricing.amount
    [] sort = "price_desc"  -> 0 - doc.pricing.amount
    [] sort = "rating_desc" -> 0 - doc.qualityRating.average
    [] sort = "oldest"      -> doc.createdAt
    [] OTHER                -> 0 - doc.createdAt

\* documents compare by the keys in turn; equal keys leave the order to the store, which
\* keeps insertion order
before(k1, k2) ==
  \/ k1[1] < k2[1]
  \/ k1[1] = k2[1] /\ k1[2] < k2[2]
  \/ k1[1] = k2[1] /\ k1[2] = k2[2] /\ k1[3] <= k2[3]

\* cursor.sort: the ids of S in the order of their keys
RECURSIVE sorted(_, _)
sorted(S, key) ==
  IF S = {} THEN <<>>
  ELSE LET first == CHOOSE x \in S : \A y \in S : before(key[x], key[y])
       IN  <<first>> \o sorted(S \ {first}, key)

\* cursor.skip(n).limit(m)
skipLimit(seq, n, m) == SubSeq(seq, n + 1, Min(Len(seq), n + m))

\* a division that rounds down
floorDiv(a, b) == a \div b

\* Math.ceil(a / b) for b >= 1
ceilDiv(a, b) == (a + b - 1) \div b

\* incrementViewCount on each document of ids: viewCount += 1, save
incrementViewCount(svcs, ids) ==
  [i \in DOMAIN svcs |->
     IF i \in ids THEN [svcs[i] EXCEPT !.viewCount = @ + 1] ELSE svcs[i]]

Range(seq) == {seq[i] : i \in 1..Len(seq)}

(***************************************************************************)
(* router.get('/')                                                         *)
(***************************************************************************)
DefaultPage == 1
DefaultLimit == 12

listServices(user, q, svcs) ==
  LET page  == IF has(q, "page") THEN q.page ELSE DefaultPage
      limit == IF has(q, "limit") THEN q.limit ELSE DefaultLimit
      sort  == IF has(q, "sort") THEN q.sort ELSE "newest"
      featuredIds == {i \in DOMAIN svcs : matchesFilter(svcs[i], q) /\ svcs[i].isFeatured = TRUE}
      regularIds  == {i \in DOMAIN svcs : matchesFilter(svcs[i], q) /\ svcs[i].isFeatured # TRUE}
      featuredKey == [i \in featuredIds |->
                        <<0 - svcs[i].featuredUntil, sortKey(svcs[i], sort), svcs[i].createdAt>>]
      regularKey  == [i \in regularIds |->
                        <<sortKey(svcs[i], sort), 0, svcs[i].createdAt>>]
      featuredServices == skipLimit(sorted(featuredIds, featuredKey), 0, limit)
      skip == (page - 1) * limit
      regularServices == skipLimit(sorted(regularIds, regularKey), skip, limit)
      total == Cardinality(regularIds)
      ids == featuredServices \o regularServices
      viewed == incrementViewCount(svcs, Range(ids))
      totalPages == ceilDiv(total, limit)
  IN  IF has(q, "city") /\ ~validRegex(q.city)
        THEN Out(svcs, Reply(500, "Server error while fetching services"))
      ELSE Out(viewed,
               [Reply(200, "") EXCEPT
                  !.services = [n \in 1..Len(ids) |-> view(viewed, ids[n])],
                  !.pagination =
                    [currentPage   |-> page,
                     totalPages    |-> totalPages,
                     totalServices |-> total + Len(featuredServices),
                     hasNextPage   |-> page < totalPages,
                     hasPrevPage   |-> page > 1]])

(***************************************************************************)
(* router.get('/:id')                                                      *)
(***************************************************************************)
\* a check that hides suspended listings only
isActiveUnlessSuspended(doc) == doc.status # "suspended"

\* service.status === 'active'
isActive(doc) == doc.status = "active"

getService(user, id, svcs) ==
  LET viewed == incrementViewCount(svcs, {id})
  IN  IF ~isObjectId(id) THEN Out(svcs, Reply(500, "Server error while fetching service"))
      ELSE IF ~has(svcs, id) THEN Out(svcs, Reply(404, "Service not found"))
      ELSE IF ~isActive(svcs[id]) THEN Out(svcs, Reply(404, "Service not available"))
      ELSE Out(viewed, [Reply(200, "") EXCEPT !.services = <<view(viewed, id)>>])

(***************************************************************************)
(* router.get('/provider/:providerId')                                     *)
(***************************************************************************)
getProviderServices(providerId, svcs) ==
  LET ids == {i \in DOMAIN svcs :
                /\ svcs[i].provider = providerId
                /\ svcs[i].status = "active"
                /\ svcs[i].isVerified = TRUE}
      key == [i \in ids |->
                <<IF svcs[i].isFeatured THEN 0 ELSE 1, 0 - svcs[i].createdAt, svcs[i].createdAt>>]
      found == sorted(ids, key)
  IN  IF ~isObjectId(providerId)
        THEN Out(svcs, Reply(500, "Server error while fetching provider services"))
      ELSE Out(svcs, [Reply(200, "") EXCEPT
                        !.services = [n \in 1..Len(found) |-> view(svcs, found[n])]])

(***************************************************************************)
(* router.get('/categories')                                               *)
(***************************************************************************)
CategoryList ==
  <<"home_services", "automotive", "healthcare", "education", "technology",
    "beauty_wellness", "professional_services", "entertainment", "maintenance",
    "consulting", "other">>

getCategories(svcs) ==
  Out(svcs, [Reply(200, "") EXCEPT !.categories = CategoryList])

(***************************************************************************)
(* router.put('/:id')                                                      *)
(***************************************************************************)
allowedUpdates ==
  {"title", "description", "shortDescription", "subcategory", "tags", "duration",
   "availability", "pricing", "serviceArea", "onSiteService", "remoteService",
   "images", "videos", "documents"}

\* Object.keys(updates).filter(allowed).reduce(...), then the reset of the status
filteredUpdates(body) ==
  LET kept == [k \in DOMAIN body \cap allowedUpdates |-> body[k]]
      given(k) == has(kept, k) /\ truthy(kept[k])
  IN  IF given("title") \/ given("description") \/ given("pricing")
        THEN set(kept, "status", "pending_review")
        ELSE kept

\* findByIdAndUpdate(id, update, {new: true}): the paths of update are set on the document
applyUpdate(doc, update) ==
  [k \in DOMAIN doc |-> IF has(update, k) THEN update[k] ELSE doc[k]]

\* an ownership check that passes everyone
isOwnerAnyone(doc, user) == TRUE

\* service.provider.toString() === req.user._id.toString()
isOwner(doc, user) == doc.provider = user

updateService(hdr, cookie, id, body, usrs, svcs) ==
  LET auth == protect(hdr, cookie, usrs)
      errors == updateErrors(body)
      update == filteredUpdates(sanitize(body))
      updated == [svcs EXCEPT ![id] = applyUpdate(@, update)]
  IN  IF auth.status # 0 THEN Out(svcs, Reply(auth.status, "Not authorized"))
      ELSE IF requireServiceProvider(auth.user, usrs) # 0
        THEN Out(svcs, Reply(403, "only accessible to service providers"))
      ELSE IF requireVerification(auth.user, usrs) # 0
        THEN Out(svcs, Reply(403, "Account verification required"))
      ELSE IF errors # {}
        THEN Out(svcs, [Reply(400, "") EXCEPT !.errors = errors])
      ELSE IF ~isObjectId(id)
        THEN Out(svcs, Reply(500, "Server error while updating service"))
      ELSE IF ~has(svcs, id) THEN Out(svcs, Reply(404, "Service not found"))
      ELSE IF ~isOwner(svcs[id], auth.user)
        THEN Out(svcs, Reply(403, "Not authorized to update this service"))
      ELSE IF ~updateValidatorsPass(update)
        THEN Out(svcs, Reply(500, "Server error while updating service"))
      ELSE Out(updated, [Reply(200, "Service updated successfully")
                           EXCEPT !.services = <<view(updated, id)>>])

(***************************************************************************)
(* router.delete('/:id')                                                   *)
(***************************************************************************)
deleteService(hdr, cookie, id, usrs, svcs) ==
  LET auth == protect(hdr, cookie, usrs)
      left == [i \in DOMAIN svcs \ {id} |-> svcs[i]]
  IN  IF auth.status # 0 THEN Out(svcs, Reply(auth.status, "Not authorized"))
      ELSE IF requireServiceProvider(auth.user, usrs) # 0
        THEN Out(svcs, Reply(403, "only accessible to service providers"))
      ELSE IF ~isObjectId(id)
        THEN Out(svcs, Reply(500, "Server error while deleting service"))
      ELSE IF ~has(svcs, id) THEN Out(svcs, Reply(404, "Service not found"))
      ELSE IF ~isOwner(svcs[id], auth.user)
        THEN Out(svcs, Reply(403, "Not authorized to delete this service"))
      ELSE Out(left, Reply(200, "Service deleted successfully"))

(***************************************************************************)
(* The router: the routes in the order they are registered; a request goes *)
(* to the first route whose method and path pattern match it.              *)
(***************************************************************************)
Routes ==
  <<[method |-> "POST",   pattern |-> <<>>,                          handler |-> "create"],
    [method |-> "GET",    pattern |-> <<>>,                          handler |-> "list"],
    [method |-> "GET",    pattern |-> <<":id">>,                     handler |-> "getById"],
    [method |-> "PUT",    pattern |-> <<":id">>,                     handler |-> "update"],
    [method |-> "DELETE", pattern |-> <<":id">>,                     handler |-> "delete"],
    [method |-> "GET",    pattern |-> <<"provider", ":providerId">>, handler |-> "provider"],
    [method |-> "GET",    pattern |-> <<"categories">>,              handler |-> "categories"]>>

\* a path pattern matches a path of as many segments, a :param matching any segment
matchesPattern(pattern, path) ==
  /\ Len(pattern) = Len(path)
  /\ \A i \in 1..Len(pattern) :
       pattern[i] \in {":id", ":providerId"} \/ pattern[i] = path[i]

\* the handler a request reaches, "none" when no route of the router matches
Route(method, path) ==
  LET hits == {i \in 1..Len(Routes) :
                 Routes[i].method = method /\ matchesPattern(Routes[i].pattern, path)}
  IN  IF hits = {} THEN "none"
      ELSE Routes[CHOOSE i \in hits : \A j \in hits : i <= j].handler

\* the app's 404 handler, reached when no route matches
routeNotFound(svcs) == Out(svcs, Reply(404, "Route not found"))

\* one request through the router
handle(r, usrs, svcs, newId) ==
  LET h == Route(r.method, r.path)
      user == optionalAuth(r.hdr, r.cookie, usrs)
  IN  CASE h = "create"     -> createService(r.hdr, r.cookie, r.body, usrs, svcs, newId)
        [] h = "list"       -> listServices(user, r.query, svcs)
        [] h = "getById"    -> getService(user, r.path[1], svcs)
        [] h = "update"     -> updateService(r.hdr, r.cookie, r.path[1], r.body, usrs, svcs)
        [] h = "delete"     -> deleteService(r.hdr, r.cookie, r.path[1], usrs, svcs)
        [] h = "provider"   -> getProviderServices(r.path[2], svcs)
        [] h = "categories" -> getCategories(svcs)
        [] OTHER            -> routeNotFound(svcs)

Request(method, path, hdr, cookie, body, query) ==
  [method |-> method, path |-> path, hdr |-> hdr, cookie |-> cookie,
   body |-> body, query |-> query]

\* no request: the state was last changed from outside the router
NoRequest == Request("", <<>>, NoHeader, "", EmptyObject, EmptyObject)

\* no handler in progress
NoCalls == EmptyObject

(***************************************************************************)
(* The requests of the model.                                              *)
(***************************************************************************)
City1 == <<"a", "b">>

ValidBody ==
  [title       |-> Str(0, 5),
   description |-> Str(0, 20),
   category    |-> "home_services",
   pricing     |-> [type |-> "fixed", amount |-> 0],
   serviceArea |-> [cities |-> <<City1>>]]

\* titles and descriptions around the limits of the validators, one of them padded with blanks
TitleInputs == {Str(0, 4), Str(1, 4), Str(0, 5), Str(0, 100), Str(0, 101)}
DescriptionInputs == {Str(0, 19), Str(0, 20), Str(0, 1001)}
PricingInputs ==
  {[type |-> "fixed", amount |-> 0], [type |-> "fixed", amount |-> 0 - 1],
   [type |-> "bogus", amount |-> 0], Null}
ServiceAreaInputs == {[cities |-> <<>>], [cities |-> <<City1>>]}

\* the bodies sent to create: the valid body, and the valid body with one field changed,
\* dropped or added
CreateBodies ==
  {ValidBody}
    \cup {set(ValidBody, "title", t) : t \in TitleInputs}
    \cup {set(ValidBody, "description", d) : d \in DescriptionInputs}
    \cup {set(ValidBody, "category", "bogus")}
    \cup {set(ValidBody, "pricing", p) : p \in PricingInputs}
    \cup {set(ValidBody, "serviceArea", a) : a \in ServiceAreaInputs}
    \cup {set(ValidBody, "status", "active"), set(ValidBody, "isVerified", TRUE)}
    \cup {[k \in DOMAIN ValidBody \ {"title"} |-> ValidBody[k]]}

\* the bodies sent to update: one field, no field, or a field with a status beside it
UpdateBodies ==
  {EmptyObject}
    \cup {("title" :> t) : t \in TitleInputs}
    \cup {("description" :> d) : d \in DescriptionInputs}
    \cup {("pricing" :> p) : p \in PricingInputs}
    \cup {("serviceArea" :> a) : a \in ServiceAreaInputs}
    \cup {("status" :> "active"), ("isVerified" :> TRUE)}
    \cup {("title" :> Str(0, 100)) @@ ("status" :> "active"),
          ("serviceArea" :> [cities |-> <<>>]) @@ ("status" :> "active")}

\* a bearer token of each user, or no credentials
BearerHeaders == {NoHeader} \cup {[scheme |-> "Bearer", cred |-> generateAuthToken(u)] : u \in UserIds}

\* the :id segments sent: a stored or free id, an id that names nothing, a word that is no id
IdSegments == ServiceIds \cup {UnknownId, "categories"}

GetPaths ==
  {<<>>} \cup {<<i>> : i \in IdSegments}
    \cup {<<"provider", u>> : u \in {"u1", "u2", "categories"}}

(***************************************************************************)
(* The state machine.                                                      *)
(***************************************************************************)
Init ==
  /\ users = InitUsers
  /\ services = EmptyObject
  /\ req = NoRequest
  /\ res = Reply(0, "")
  /\ calls = NoCalls

\* the id a new listing gets: one no stored listing has
freshIds(svcs) ==
  IF ServiceIds \ DOMAIN svcs = {} THEN {UnknownId} ELSE ServiceIds \ DOMAIN svcs

\* no request is being served
Idle == req = NoRequest

\* the requests the bounds admit: a create only while an id is free, a read only while the
\* view counters it raises stay within MaxViews
admitted(out, newId) ==
  /\ out.res.status = 201 => newId \in ServiceIds
  /\ \A i \in DOMAIN out.services : out.services[i].viewCount <= MaxViews

Post ==
  \E hdr \in BearerHeaders, body \in CreateBodies, newId \in freshIds(services) :
    LET r == Request("POST", <<>>, hdr, "", body, EmptyObject)
        out == handle(r, users, services, newId)
    IN  /\ Idle /\ admitted(out, newId)
        /\ services' = out.services /\ res' = out.res /\ req' = r
        /\ UNCHANGED <<users, calls>>

Get ==
  \E hdr \in BearerHeaders, path \in GetPaths :
    LET r == Request("GET", path, hdr, "", EmptyObject, EmptyObject)
        out == handle(r, users, services, UnknownId)
    IN  /\ Idle /\ admitted(out, UnknownId)
        /\ services' = out.services /\ res' = out.res /\ req' = r
        /\ UNCHANGED <<users, calls>>

Put ==
  \E hdr \in BearerHeaders, id \in IdSegments, body \in UpdateBodies :
    LET r == Request("PUT", <<id>>, hdr, "", body, EmptyObject)
        out == handle(r, users, services, UnknownId)
    IN  /\ Idle /\ admitted(out, UnknownId)
        /\ services' = out.services /\ res' = out.res /\ req' = r
        /\ UNCHANGED <<users, calls>>

Delete ==
  \E hdr \in BearerHeaders, id \in IdSegments :
    LET r == Request("DELETE", <<id>>, hdr, "", EmptyObject, EmptyObject)
        out == handle(r, users, services, UnknownId)
    IN  /\ Idle /\ admitted(out, UnknownId)
        /\ services' = out.services /\ res' = out.res /\ req' = r
        /\ UNCHANGED <<users, calls>>

\* the response has been sent: the request is over
Respond ==
  /\ ~Idle
  /\ req' = NoRequest
  /\ res' = Reply(0, "")
  /\ UNCHANGED <<users, services, calls>>

\* the moderation workflow outside the router: it sets a listing's status and
\* verification flag
Moderate ==
  \E id \in DOMAIN services, st \in Statuses, v \in BOOLEAN :
    /\ Idle
    /\ services' = [services EXCEPT ![id].status = st, ![id].isVerified = v]
    /\ UNCHANGED <<users, req, res, calls>>

Next == Post \/ Get \/ Put \/ Delete \/ Respond \/ Moderate

Spec == Init /\ [][Next]_vars

(***************************************************************************)
(* The accounts change: SpecAuth.  The account administration is outside   *)
(* the router; it deactivates, reactivates and removes users.  The         *)
(* requests carry every combination of Authorization header and cookie.    *)
(***************************************************************************)
SetUserActive ==
  \E u \in DOMAIN users, active \in BOOLEAN :
    /\ Idle
    /\ users' = [users EXCEPT ![u].isActive = active]
    /\ UNCHANGED <<services, req, res, calls>>

RemoveUser ==
  \E u \in DOMAIN users :
    /\ Idle
    /\ users' = [v \in DOMAIN users \ {u} |-> users[v]]
    /\ UNCHANGED <<services, req, res, calls>>

AuthPost ==
  \E hdr \in Headers, cookie \in Cookies, newId \in freshIds(services) :
    LET r == Request("POST", <<>>, hdr, cookie, ValidBody, EmptyObject)
        out == handle(r, users, services, newId)
    IN  /\ Idle /\ admitted(out, newId)
        /\ services' = out.services /\ res' = out.res /\ req' = r
        /\ UNCHANGED <<users, calls>>

AuthPut ==
  \E hdr \in Headers, cookie \in Cookies, id \in ServiceIds :
    LET r == Request("PUT", <<id>>, hdr, cookie, ("title" :> Str(0, 100)), EmptyObject)
        out == handle(r, users, services, UnknownId)
    IN  /\ Idle /\ admitted(out, UnknownId)
        /\ services' = out.services /\ res' = out.res /\ req' = r
        /\ UNCHANGED <<users, calls>>

AuthDelete ==
  \E hdr \in Headers, cookie \in Cookies, id \in ServiceIds :
    LET r == Request("DELETE", <<id>>, hdr, cookie, EmptyObject, EmptyObject)
        out == handle(r, users, services, UnknownId)
    IN  /\ Idle /\ admitted(out, UnknownId)
        /\ services' = out.services /\ res' = out.res /\ req' = r
        /\ UNCHANGED <<users, calls>>

NextAuth == AuthPost \/ AuthPut \/ AuthDelete \/ Respond \/ SetUserActive \/ RemoveUser

SpecAuth == Init /\ [][NextAuth]_vars

(***************************************************************************)
(* The list route over stores of several listings: SpecList.  The store    *)
(* starts with one listing per id of ListIds, each the base listing or the *)
(* base listing with one path changed; the requests carry every            *)
(* combination of the filters.                                             *)
(***************************************************************************)
ListIds == {"s1", "s2"}

\* the listings are created in the order of their ids
createdIndex(i) == IF i = "s1" THEN 1 ELSE IF i = "s2" THEN 2 ELSE 3

City2 == <<"b", "a">>

BaseListing ==
  [newService(serviceData(ValidBody, "u1")) EXCEPT
     !.status = "active", !.isVerified = TRUE,
     !.pricing = [type |-> "fixed", amount |-> 100],
     !.qualityRating = [average |-> 4, count |-> 1]]

ListedListings ==
  {BaseListing,
   [BaseListing EXCEPT !.status = "inactive"],
   [BaseListing EXCEPT !.isVerified = FALSE],
   [BaseListing EXCEPT !.isFeatured = TRUE, !.featuredUntil = 5],
   [BaseListing EXCEPT !.category = "automotive"],
   [BaseListing EXCEPT !.pricing = [type |-> "fixed", amount |-> 50]],
   [BaseListing EXCEPT !.qualityRating = [average |-> 2, count |-> 1]],
   [BaseListing EXCEPT !.serviceArea = [cities |-> <<City2>>]]}

InitList ==
  /\ users = InitUsers
  /\ \E f \in [ListIds -> ListedListings] :
       services = [i \in ListIds |-> [f[i] EXCEPT !.createdAt = createdIndex(i)]]
  /\ req = NoRequest
  /\ res = Reply(0, "")
  /\ calls = NoCalls

\* a query key absent or with one of its values
Optional(k, values) == {EmptyObject} \cup {(k :> v) : v \in values}

\* the filters: each absent or one of its values
FilterQueries ==
  {c @@ ci @@ mn @@ mx @@ rt :
     c  \in Optional("category", {"home_services"}),
     ci \in Optional("city", {<<"a">>, <<"a", ".">>, <<"B">>, <<"(">>}),
     mn \in Optional("minPrice", {100}),
     mx \in Optional("maxPrice", {50, 100}),
     rt \in Optional("rating", {3})}

\* page, limit and sort: the defaults, the second page of pages of one, a sort by price
Pagings ==
  {EmptyObject, ("page" :> 2) @@ ("limit" :> 1), ("limit" :> 1) @@ ("sort" :> "price_asc")}

ListGet ==
  \E q \in FilterQueries, paging \in Pagings :
    LET r == Request("GET", <<>>, NoHeader, "", EmptyObject, q @@ paging)
        out == handle(r, users, services, UnknownId)
    IN  /\ Idle /\ admitted(out, UnknownId)
        /\ services' = out.services /\ res' = out.res /\ req' = r
        /\ UNCHANGED <<users, calls>>

NextList == ListGet \/ Respond

SpecList == InitList /\ [][NextList]_vars

(***************************************************************************)
(* The list route page by page: SpecPages.  The store starts with three    *)
(* listings, each the base listing, a cheaper or an inactive one, or a     *)
(* featured one whose feature expiry is ahead or has passed; the requests  *)
(* ask for each page of pages of one or two listings, or of the default    *)
(* size.                                                                   *)
(***************************************************************************)
PageIds == {"s1", "s2", "s3"}

\* featuredUntil of a listing whose feature period is over: no later than the first createdAt
FeaturedPast == 1

\* featuredUntil of a listing whose feature period lasts beyond every request
FeaturedFuture == 9

PagedListings ==
  {BaseListing,
   [BaseListing EXCEPT !.status = "inactive"],
   [BaseListing EXCEPT !.pricing = [type |-> "fixed", amount |-> 50]],
   [BaseListing EXCEPT !.isFeatured = TRUE, !.featuredUntil = FeaturedFuture],
   [BaseListing EXCEPT !.isFeatured = TRUE, !.featuredUntil = FeaturedPast]}

InitPages ==
  /\ users = InitUsers
  /\ \E f \in [PageIds -> PagedListings] :
       services = [i \in PageIds |-> [f[i] EXCEPT !.createdAt = createdIndex(i)]]
  /\ req = NoRequest
  /\ res = Reply(0, "")
  /\ calls = NoCalls

PageQueries ==
  {f @@ pg @@ lm :
     f  \in Optional("maxPrice", {50}),
     pg \in Optional("page", {1, 2, 3}),
     lm \in Optional("limit", {1, 2})}

PageGet ==
  \E q \in PageQueries :
    LET r == Request("GET", <<>>, NoHeader, "", EmptyObject, q)
        out == handle(r, users, services, UnknownId)
    IN  /\ Idle /\ admitted(out, UnknownId)
        /\ services' = out.services /\ res' = out.res /\ req' = r
        /\ UNCHANGED <<users, calls>>

NextPages == PageGet \/ Respond

SpecPages == InitPages /\ [][NextPages]_vars

(***************************************************************************)
(* Several clients at once: SpecCalls.  Node runs one handler until its    *)
(* next await and then may run another, so a handler is a sequence of      *)
(* steps, one per database call it awaits, and the steps of the handlers   *)
(* in progress interleave.  Each client sends one request.  A call keeps   *)
(* the documents its handler holds in memory (loaded), the saves it has    *)
(* still to make (pending) and, once sent, its response.                   *)
(***************************************************************************)
Clients == {"c1", "c2"}

\* the listing the clients race on, and its owner
RacedId == "s1"

InitCalls ==
  /\ users = InitUsers
  /\ services = (RacedId :> [BaseListing EXCEPT !.createdAt = createdIndex(RacedId)])
  /\ req = NoRequest
  /\ res = Reply(0, "")
  /\ calls = NoCalls

\* a handler stopped at an await, holding the documents it has found
awaiting(op, id, user, loaded, update, r) ==
  [op |-> op, id |-> id, user |-> user, pc |-> "await", loaded |-> loaded,
   pending |-> DOMAIN loaded, update |-> update, res |-> r]

\* a handler that has answered before it found any document
answered(op, id, user, r) ==
  [op |-> op, id |-> id, user |-> user, pc |-> "done", loaded |-> EmptyObject,
   pending |-> {}, update |-> EmptyObject, res |-> r]

\* a document with the view counter raised in memory
viewedOnce(doc) == [doc EXCEPT !.viewCount = @ + 1]

\* a save that raises the stored counter by one, whatever the handler has in memory
incViewCount(svcs, id, doc) == [svcs EXCEPT ![id].viewCount = @ + 1]

\* incrementViewCount: this.viewCount += 1 on the document in memory, then save(),
\* which writes the one modified path
saveViewCount(svcs, id, doc) == [svcs EXCEPT ![id].viewCount = doc.viewCount + 1]

\* router.get('/:id') up to `await service.incrementViewCount()`
GetByIdFind ==
  \E c \in Clients \ DOMAIN calls, id \in ServiceIds \cup {UnknownId} :
    LET out == getService("", id, services)
    IN  /\ calls' = calls @@
             (c :> IF out.res.status = 200
                     THEN awaiting("getById", id, "", (id :> services[id]), EmptyObject,
                                   Reply(0, ""))
                     ELSE answered("getById", id, "", out.res))
        /\ UNCHANGED <<users, services, req, res>>

\* the save of incrementViewCount and the response of router.get('/:id'); the save of
\* a document that is no longer stored throws and the catch answers 500
GetByIdSave ==
  \E c \in DOMAIN calls :
    LET id == calls[c].id
        doc == calls[c].loaded[id]
    IN  /\ calls[c].op = "getById" /\ calls[c].pc = "await"
        /\ IF has(services, id)
             THEN /\ services' = saveViewCount(services, id, doc)
                  /\ calls' = [calls EXCEPT
                       ![c].pc = "done", ![c].pending = {},
                       ![c].res = [Reply(200, "") EXCEPT
                                     !.services = <<[id |-> id, doc |-> viewedOnce(doc)]>>]]
             ELSE /\ services' = services
                  /\ calls' = [calls EXCEPT
                       ![c].pc = "done", ![c].pending = {},
                       ![c].res = Reply(500, "Server error while fetching service")]
        /\ UNCHANGED <<users, req, res>>

\* router.get('/'): the finds, the forEach that raises each counter in memory and
\* starts its save, and the response, which does not wait for the saves
ListFind ==
  \E c \in Clients \ DOMAIN calls :
    LET out == listServices("", EmptyObject, services)
        ids == {out.res.services[n].id : n \in 1..Len(out.res.services)}
    IN  /\ calls' = calls @@
             (c :> IF ids = {}
                     THEN answered("list", "", "", out.res)
                     ELSE awaiting("list", "", "", [i \in ids |-> services[i]], EmptyObject,
                                   out.res))
        /\ UNCHANGED <<users, services, req, res>>

\* one of the saves started by the forEach of router.get('/')
ListSave ==
  \E c \in DOMAIN calls :
    /\ calls[c].op = "list" /\ calls[c].pc = "await"
    /\ \E i \in calls[c].pending :
         /\ services' = IF has(services, i)
                          THEN saveViewCount(services, i, calls[c].loaded[i])
                          ELSE services
         /\ calls' = [calls EXCEPT
              ![c].pending = @ \ {i},
              ![c].pc = IF calls[c].pending = {i} THEN "done" ELSE "await"]
    /\ UNCHANGED <<users, req, res>>

\* the providers who send the updates and deletes: the owner and another provider
RaceUsers == {"u1", "u2"}

RaceBodies == {("title" :> Str(0, 100))}

\* router.put('/:id') up to `await Service.findByIdAndUpdate(...)`: the middleware, the
\* validation result, findById, the 404 and the ownership check
UpdateFind ==
  \E c \in Clients \ DOMAIN calls, u \in RaceUsers, body \in RaceBodies :
    LET hdr == [scheme |-> "Bearer", cred |-> generateAuthToken(u)]
        out == updateService(hdr, "", RacedId, body, users, services)
    IN  /\ calls' = calls @@
             (c :> IF out.res.status = 200
                     THEN awaiting("update", RacedId, u, (RacedId :> services[RacedId]),
                                   filteredUpdates(sanitize(body)), Reply(0, ""))
                     ELSE answered("update", RacedId, u, out.res))
        /\ UNCHANGED <<users, services, req, res>>

\* findByIdAndUpdate(id, filteredUpdates, {new: true}) and the response: the document
\* after the update, or null when no document has the id
UpdateWrite ==
  \E c \in DOMAIN calls :
    LET id == calls[c].id
        updated == [services EXCEPT ![id] = applyUpdate(@, calls[c].update)]
    IN  /\ calls[c].op = "update" /\ calls[c].pc = "await"
        /\ IF has(services, id)
             THEN /\ services' = updated
                  /\ calls' = [calls EXCEPT
                       ![c].pc = "done", ![c].pending = {},
                       ![c].res = [Reply(200, "Service updated successfully") EXCEPT
                                     !.services = <<view(updated, id)>>]]
             ELSE /\ services' = services
                  /\ calls' = [calls EXCEPT
                       ![c].pc = "done", ![c].pending = {},
                       ![c].res = Reply(200, "Service updated successfully")]
        /\ UNCHANGED <<users, req, res>>

\* router.delete('/:id') up to `await Service.findByIdAndDelete(...)`
DeleteFind ==
  \E c \in Clients \ DOMAIN calls, u \in RaceUsers :
    LET hdr == [scheme |-> "Bearer", cred |-> generateAuthToken(u)]
        out == deleteService(hdr, "", RacedId, users, services)
    IN  /\ calls' = calls @@
             (c :> IF out.res.status = 200
                     THEN awaiting("delete", RacedId, u, (RacedId :> services[RacedId]),
                                   EmptyObject, Reply(0, ""))
                     ELSE answered("delete", RacedId, u, out.res))
        /\ UNCHANGED <<users, services, req, res>>

\* findByIdAndDelete(id) and the response
DeleteRemove ==
  \E c \in DOMAIN calls :
    LET id == calls[c].id
    IN  /\ calls[c].op = "delete" /\ calls[c].pc = "await"
        /\ services' = [i \in DOMAIN services \ {id} |-> services[i]]
        /\ calls' = [calls EXCEPT
             ![c].pc = "done", ![c].pending = {},
             ![c].res = Reply(200, "Service deleted successfully")]
        /\ UNCHANGED <<users, req, res>>

NextCalls ==
  \/ GetByIdFind \/ GetByIdSave
  \/ ListFind \/ ListSave
  \/ UpdateFind \/ UpdateWrite
  \/ DeleteFind \/ DeleteRemove

SpecCalls == InitCalls /\ [][NextCalls]_vars

(***************************************************************************)
(* The user documents and their passwords: SpecUsers (models/User.js).     *)
(* A password value is a plain text with bcrypt applied some number of     *)
(* times on top of it.  The store keeps the password of each user; a       *)
(* document found by some code is an entry of calls: the user it is of,    *)
(* whether the password was selected, the password it holds in memory,     *)
(* whether that path is modified, and the last call made on it.            *)
(***************************************************************************)
PlainPasswords == {"p1", "p2"}

Password(plain, hashes) == [plain |-> plain, hashes |-> hashes]

\* bcrypt.hash(value, salt)
bcryptHash(value) == [value EXCEPT !.hashes = @ + 1]

\* bcrypt.compare(entered, stored): stored is the hash of the text entered
bcryptCompare(entered, stored) == stored = bcryptHash(Password(entered, 0))

\* userSchema.methods.comparePassword
comparePassword(doc, enteredPassword) == bcryptCompare(enteredPassword, doc.password)

Documents == {"d1", "d2"}

AccountId == "u1"

\* every user registered with the first password
InitAccounts ==
  /\ users = [u \in UserIds |->
                [userType   |-> InitUsers[u].userType,
                 isVerified |-> InitUsers[u].isVerified,
                 isActive   |-> InitUsers[u].isActive,
                 password   |-> bcryptHash(Password("p1", 0))]]
  /\ services = EmptyObject
  /\ req = NoRequest
  /\ res = Reply(0, "")
  /\ calls = NoCalls

\* User.findById(id), with .select('+password') or without: password has select: false
FindUser ==
  \E d \in Documents \ DOMAIN calls, selected \in BOOLEAN :
    /\ calls' = calls @@
         (d :> [op |-> "user", id |-> AccountId, selected |-> selected,
                password |-> IF selected THEN users[AccountId].password
                             ELSE Password("", 0),
                modified |-> FALSE,
                last |-> "find"])
    /\ UNCHANGED <<users, services, req, res>>

\* user.password = <text>
SetPassword ==
  \E d \in DOMAIN calls, plain \in PlainPasswords :
    /\ calls' = [calls EXCEPT ![d].selected = TRUE,
                              ![d].password = Password(plain, 0),
                              ![d].modified = TRUE,
                              ![d].last = "set"]
    /\ UNCHANGED <<users, services, req, res>>

\* pre('save'): the password the document holds once the hook's function has run to
\* its end.  When the password is not modified the hook calls next() and, with no
\* return, goes on to hash this.password all the same; bcrypt rejects a password
\* that was not selected, and the document is left as it was.
preSave(doc) ==
  IF doc.modified THEN bcryptHash(doc.password)
  ELSE IF doc.selected THEN bcryptHash(doc.password)
  ELSE doc.password

\* user.save().  With the password modified the save waits for the hook and writes the
\* hash.  With the password not modified next() lets the save go on while the hook is
\* still hashing: the assignment of the hook lands after the write, and the document
\* is left holding a hash of the stored hash, marked modified (landed) or not (the
\* save reset the document afterwards); or it lands before the write and the hash of
\* the stored hash is written.
SaveUser ==
  \E d \in DOMAIN calls, landsBeforeWrite \in BOOLEAN, staysModified \in BOOLEAN :
    LET doc == calls[d]
        after == preSave(doc)
        rehashed == ~doc.modified /\ doc.selected
        written == doc.modified \/ (rehashed /\ landsBeforeWrite)
    IN  /\ after.hashes <= MaxHashes
        /\ ~rehashed => (landsBeforeWrite /\ ~staysModified)
        /\ (rehashed /\ landsBeforeWrite) => ~staysModified
        /\ users' = IF written THEN [users EXCEPT ![doc.id].password = after] ELSE users
        /\ calls' = [calls EXCEPT ![d].password = after, ![d].modified = staysModified,
                                  ![d].last = "save"]
        /\ UNCHANGED <<services, req, res>>

\* the code that held the document is done with it
DropUser ==
  \E d \in DOMAIN calls :
    /\ calls' = [e \in DOMAIN calls \ {d} |-> calls[e]]
    /\ UNCHANGED <<users, services, req, res>>

NextUsers == FindUser \/ SetPassword \/ SaveUser \/ DropUser

SpecUsers == InitAccounts /\ [][NextUsers]_vars

(***************************************************************************)
(* The providers' writes with no moderation: SpecProvider.  The payloads   *)
(* of create and update carry, next to the fields a provider edits, the    *)
(* fields the moderation controls.                                         *)
(***************************************************************************)
\* keys of the moderation-controlled paths as a client can put them in a payload
ModerationPayloads ==
  {EmptyObject,
   ("isVerified" :> TRUE),
   ("isFeatured" :> TRUE) @@ ("featuredUntil" :> FeaturedFuture),
   ("viewCount" :> 1),
   ("qualityRating" :> [average |-> 5, count |-> 1]),
   ("provider" :> "u2") @@ ("status" :> "active")}

ProviderCreateBodies == {extra @@ ValidBody : extra \in ModerationPayloads}

ProviderUpdateBodies ==
  {extra @@ edit : extra \in ModerationPayloads,
                   edit \in {EmptyObject, ("title" :> Str(0, 100)),
                             ("serviceArea" :> [cities |-> <<City2>>])}}

ProviderPost ==
  \E hdr \in BearerHeaders, body \in ProviderCreateBodies, newId \in freshIds(services) :
    LET r == Request("POST", <<>>, hdr, "", body, EmptyObject)
        out == handle(r, users, services, newId)
    IN  /\ Idle /\ admitted(out, newId)
        /\ services' = out.services /\ res' = out.res /\ req' = r
        /\ UNCHANGED <<users, calls>>

ProviderPut ==
  \E hdr \in BearerHeaders, id \in ServiceIds, body \in ProviderUpdateBodies :
    LET r == Request("PUT", <<id>>, hdr, "", body, EmptyObject)
        out == handle(r, users, services, UnknownId)
    IN  /\ Idle /\ admitted(out, UnknownId)
        /\ services' = out.services /\ res' = out.res /\ req' = r
        /\ UNCHANGED <<users, calls>>

NextProvider == ProviderPost \/ ProviderPut \/ Respond

SpecProvider == Init /\ [][NextProvider]_vars

(***************************************************************************)
(* The gates on their own: SpecGates.  Each gate is mounted behind         *)
(* optionalAuth, the one upstream middleware that calls next() with or     *)
(* without a user on the request, and in front of a handler that answers   *)
(* 200.  The accounts start with u1 in any role, verified or not, and u2   *)
(* active or not.                                                          *)
(***************************************************************************)
InitGates ==
  /\ \E t \in UserTypes, verified \in BOOLEAN, active \in BOOLEAN :
       users = [InitUsers EXCEPT !["u1"].userType = t,
                                 !["u1"].isVerified = verified,
                                 !["u2"].isActive = active]
  /\ services = EmptyObject
  /\ req = NoRequest
  /\ res = Reply(0, "")
  /\ calls = NoCalls

TokenHeaders ==
  {NoHeader} \cup {[scheme |-> "Bearer", cred |-> t] : t \in Tokens}

\* the stack [optionalAuth, gate, handler]: the answer when the gate gave this status
gated(status) ==
  IF status = 0 THEN Reply(200, "ok")
  ELSE IF status = 500 THEN Reply(500, "Internal server error")
  ELSE Reply(status, "gate")

\* the request through the stack of the gate with this name
gateRequest(name, userTypes, hdr) ==
  Request("USE", <<name>>, hdr, "", EmptyObject, ("userTypes" :> userTypes))

UseAuthorize ==
  \E hdr \in TokenHeaders, userTypes \in SUBSET UserTypes :
    /\ Idle
    /\ req' = gateRequest("authorize", userTypes, hdr)
    /\ res' = gated(authorize(userTypes, optionalAuth(hdr, "", users), users))
    /\ UNCHANGED <<users, services, calls>>

UseRequireVerification ==
  \E hdr \in TokenHeaders :
    /\ Idle
    /\ req' = gateRequest("requireVerification", {}, hdr)
    /\ res' = gated(requireVerification(optionalAuth(hdr, "", users), users))
    /\ UNCHANGED <<users, services, calls>>

UseRequireServiceProvider ==
  \E hdr \in TokenHeaders :
    /\ Idle
    /\ req' = gateRequest("requireServiceProvider", {"service_provider"}, hdr)
    /\ res' = gated(requireServiceProvider(optionalAuth(hdr, "", users), users))
    /\ UNCHANGED <<users, services, calls>>

UseRequireCustomer ==
  \E hdr \in TokenHeaders :
    /\ Idle
    /\ req' = gateRequest("requireCustomer", {"customer"}, hdr)
    /\ res' = gated(requireCustomer(optionalAuth(hdr, "", users), users))
    /\ UNCHANGED <<users, services, calls>>

UseRequireAdmin ==
  \E hdr \in TokenHeaders :
    /\ Idle
    /\ req' = gateRequest("requireAdmin", {"admin"}, hdr)
    /\ res' = gated(requireAdmin(optionalAuth(hdr, "", users), users))
    /\ UNCHANGED <<users, services, calls>>

NextGates ==
  \/ UseAuthorize
  \/ UseRequireVerification
  \/ UseRequireServiceProvider
  \/ UseRequireCustomer
  \/ UseRequireAdmin
  \/ Respond

SpecGates == InitGates /\ [][NextGates]_vars

(***************************************************************************)
(* What the claims read off a request.                                     *)
(***************************************************************************)
\* the request just served, when one is
Served == req # NoRequest

\* the user whose token the request carries, "" when it carries none that verifies
callerOf(r) ==
  IF r.hdr.scheme = "Bearer" THEN jwtVerify(r.hdr.cred) ELSE jwtVerify(r.cookie)

\* u is an account that exists, is active and has the provider role
activeProvider(u) ==
  /\ u \in DOMAIN users
  /\ users[u].isActive
  /\ users[u].userType = "service_provider"

\* a step that serves a request with this method
Serves(methods) == Idle /\ req' # NoRequest /\ req'.method \in methods

(***************************************************************************)
(* C1: every listing a public read (list, getById, listByProvider) returns *)
(* has status active and verification flag true.                           *)
(***************************************************************************)
C1_ReadsReturnOnlyActiveVerified ==
  (Served /\ req.method = "GET") =>
    \A n \in 1..Len(res.services) :
      /\ res.services[n].doc.status = "active"
      /\ res.services[n].doc.isVerified = TRUE

(***************************************************************************)
(* C2: the list route returns only active, verified listings that satisfy  *)
(* every supplied filter: category equal to the given one, some city of    *)
(* the service area containing the given text whatever the case, price     *)
(* within the inclusive minPrice..maxPrice range, average rating at least  *)
(* the given one; and minPrice above maxPrice gives an empty result, not   *)
(* an error.                                                               *)
(***************************************************************************)
\* str contains txt as a piece of text, whatever the case of the letters
C2_ContainsText(str, txt) ==
  \E start \in 0..(Len(str) - Len(txt)) :
    \A j \in 1..Len(txt) : lower(txt[j]) = lower(str[start + j])

C2_ListAppliesEveryFilter ==
  (Served /\ req.method = "GET" /\ req.path = <<>>) =>
    LET q == req.query
    IN  /\ \A n \in 1..Len(res.services) :
             LET doc == res.services[n].doc
             IN  /\ doc.status = "active"
                 /\ doc.isVerified = TRUE
                 /\ has(q, "category") => doc.category = q.category
                 /\ has(q, "city") =>
                      \E i \in 1..Len(doc.serviceArea.cities) :
                        C2_ContainsText(doc.serviceArea.cities[i], q.city)
                 /\ has(q, "minPrice") => doc.pricing.amount >= q.minPrice
                 /\ has(q, "maxPrice") => doc.pricing.amount <= q.maxPrice
                 /\ has(q, "rating") => doc.qualityRating.average >= q.rating
        /\ (has(q, "minPrice") /\ has(q, "maxPrice") /\ q.minPrice > q.maxPrice) =>
             (res.status = 200 /\ res.services = <<>>)

(***************************************************************************)
(* C3: getById of a stored listing whose status is not active answers 404  *)
(* whoever calls, and leaves the listing's view counter as it was.         *)
(***************************************************************************)
C3_NonActiveIsNotFound ==
  [][\A id \in DOMAIN services :
       (Serves({"GET"}) /\ req'.path = <<id>> /\ services[id].status # "active") =>
         /\ res'.status = 404
         /\ id \in DOMAIN services'
         /\ services'[id].viewCount = services[id].viewCount]_vars

\* the owner, authenticated, asks for their own suspended listing and gets 404
C3_Witness ==
  /\ Served /\ req.method = "GET" /\ Len(req.path) = 1
  /\ req.path[1] \in DOMAIN services
  /\ services[req.path[1]].status = "suspended"
  /\ callerOf(req) = services[req.path[1]].provider
  /\ res.status = 404

(***************************************************************************)
(* C4: after a successful update whose payload sets title, description or  *)
(* pricing, the stored status is pending_review.                           *)
(***************************************************************************)
C4_UpdateForcesPendingReview ==
  (/\ Served /\ req.method = "PUT" /\ res.status = 200
   /\ (has(req.body, "title") \/ has(req.body, "description") \/ has(req.body, "pricing")))
    => services[req.path[1]].status = "pending_review"

(***************************************************************************)
(* C5: update or delete of a stored listing by an authenticated provider   *)
(* who does not own it is answered 403 and leaves the store as it was.     *)
(***************************************************************************)
C5_NonOwner(id) ==
  /\ Serves({"PUT", "DELETE"}) /\ req'.path = <<id>>
  /\ activeProvider(callerOf(req'))
  /\ callerOf(req') # services[id].provider

C5_NonOwnerIsForbidden_Original ==
  [][\A id \in DOMAIN services :
       C5_NonOwner(id) => res'.status = 403 /\ services' = services]_vars

\* the payload fails a validator of the update route
C5_FailsUpdateValidation(body) ==
  \/ has(body, "title")
     /\ ~(body.title # Null /\ body.title.len >= 5 /\ body.title.len <= 100)
  \/ has(body, "description")
     /\ ~(body.description # Null /\ body.description.len >= 20
          /\ body.description.len <= 1000)
  \/ has(body, "pricing") /\ body.pricing # Null /\ body.pricing.amount < 0

\* as amended: 403, but 400 for an update by a verified provider whose payload fails
\* validation; never 404, and the store is left as it was
C5_NonOwnerIsForbidden ==
  [][\A id \in DOMAIN services :
       C5_NonOwner(id) =>
         /\ services' = services
         /\ res'.status =
              IF /\ req'.method = "PUT"
                 /\ users[callerOf(req')].isVerified
                 /\ C5_FailsUpdateValidation(req'.body)
                THEN 400 ELSE 403]_vars

\* a verified provider updates, with a valid payload, a listing of another provider
C5_Witness ==
  /\ Served /\ req.method = "PUT"
  /\ has(req.body, "title") /\ ~C5_FailsUpdateValidation(req.body)
  /\ req.path[1] \in DOMAIN services
  /\ activeProvider(callerOf(req)) /\ users[callerOf(req)].isVerified
  /\ callerOf(req) # services[req.path[1]].provider
  /\ res.status = 403

(***************************************************************************)
(* C6: create stores a listing only for a verified service provider with a *)
(* payload that meets every create constraint; another role or an          *)
(* unverified provider gets 403, a payload that breaks a constraint 400,   *)
(* and a rejected create leaves the store as it was.                       *)
(***************************************************************************)
C6_MeetsCreateConstraints(body) ==
  /\ has(body, "title") /\ body.title.len >= 5 /\ body.title.len <= 100
  /\ has(body, "description") /\ body.description.len >= 20 /\ body.description.len <= 1000
  /\ has(body, "category") /\ body.category \in Categories
  /\ has(body, "pricing") /\ body.pricing # Null
  /\ body.pricing.type \in PricingTypes /\ body.pricing.amount >= 0
  /\ has(body, "serviceArea") /\ Len(body.serviceArea.cities) >= 1

C6_CreateIsGated ==
  [][Serves({"POST"}) =>
       LET u == callerOf(req')
           known == u \in DOMAIN users /\ users[u].isActive
           provider == known /\ users[u].userType = "service_provider"
           verified == provider /\ users[u].isVerified
       IN  /\ services' # services =>
                verified /\ C6_MeetsCreateConstraints(req'.body) /\ res'.status = 201
           /\ (known /\ ~provider) => res'.status = 403
           /\ (provider /\ ~verified) => res'.status = 403
           /\ (verified /\ ~C6_MeetsCreateConstraints(req'.body)) => res'.status = 400
           /\ res'.status # 201 => services' = services]_vars

\* a verified provider sends a title of 4 characters: 400 on the title, nothing stored
C6_Witness ==
  /\ Served /\ req.method = "POST"
  /\ has(req.body, "title") /\ req.body.title = Str(0, 4)
  /\ activeProvider(callerOf(req)) /\ users[callerOf(req)].isVerified
  /\ res.status = 400 /\ "title" \in res.errors
  /\ services = EmptyObject

(***************************************************************************)
(* C7: update answers 400, and changes nothing, when a field of its        *)
(* payload breaks the constraint create puts on that field (stated for the *)
(* owner of a stored listing, whom nothing else stops).                    *)
(***************************************************************************)
C7_BreaksCreateConstraint(body) ==
  \/ has(body, "title") /\ ~(body.title.len >= 5 /\ body.title.len <= 100)
  \/ has(body, "description")
     /\ ~(body.description.len >= 20 /\ body.description.len <= 1000)
  \/ has(body, "pricing") /\ body.pricing # Null
     /\ ~(body.pricing.type \in PricingTypes /\ body.pricing.amount >= 0)
  \/ has(body, "serviceArea") /\ Len(body.serviceArea.cities) < 1

C7_UpdateValidatesLikeCreate ==
  [][\A id \in DOMAIN services :
       (/\ Serves({"PUT"}) /\ req'.path = <<id>>
        /\ activeProvider(callerOf(req')) /\ users[callerOf(req')].isVerified
        /\ callerOf(req') = services[id].provider
        /\ C7_BreaksCreateConstraint(req'.body))
         => res'.status = 400 /\ services' = services]_vars

(***************************************************************************)
(* C8: a request never sets a listing's status to anything but             *)
(* pending_review: a new listing is stored as pending_review whatever      *)
(* status the client sent, and a status a request changes becomes          *)
(* pending_review.                                                         *)
(***************************************************************************)
C8_CoreWritesOnlyPendingReview ==
  [][Serves({"POST", "GET", "PUT", "DELETE"}) =>
       \A id \in DOMAIN services' :
         (id \notin DOMAIN services \/ services'[id].status # services[id].status)
           => services'[id].status = "pending_review"]_vars

\* a create that sent status active has stored the listing as pending_review
C8_Witness ==
  /\ Served /\ req.method = "POST" /\ res.status = 201
  /\ has(req.body, "status") /\ req.body.status = "active"
  /\ \E id \in DOMAIN services : services[id].status = "pending_review"

(***************************************************************************)
(* C9: GET /categories is answered 200 with the fixed category list.       *)
(***************************************************************************)
C9_CategoriesAnswered ==
  (Served /\ req.method = "GET" /\ req.path = <<"categories">>) =>
    /\ res.status = 200
    /\ res.categories = CategoryList

(***************************************************************************)
(* C10: a request to a protected route passes protect exactly when its     *)
(* token (the bearer token of the Authorization header when the request    *)
(* has one, otherwise the cookie token) verifies and names a user that     *)
(* exists and is active at that moment; the handler then acts for that     *)
(* user.  Otherwise the answer is 401 and no listing changes, which        *)
(* includes every request with the token of a user deactivated or removed  *)
(* since it was issued.                                                    *)
(***************************************************************************)
C10_TokenAdmits(r) ==
  /\ callerOf(r) # ""
  /\ callerOf(r) \in DOMAIN users
  /\ users[callerOf(r)].isActive

C10_ProtectAdmitsExactlyLiveTokens ==
  [][Serves({"POST", "PUT", "DELETE"}) =>
       /\ (res'.status # 401) <=> C10_TokenAdmits(req')
       /\ ~C10_TokenAdmits(req') => services' = services
       /\ (C10_TokenAdmits(req') /\ res'.status = 201) =>
            \E id \in DOMAIN services' \ DOMAIN services :
              services'[id].provider = callerOf(req')]_vars

\* the owner of a stored listing, deactivated since, is turned away with the old token
C10_Witness ==
  /\ Served
  /\ req.method \in {"PUT", "DELETE"}
  /\ req.hdr.scheme = "Bearer"
  /\ req.hdr.cred = generateAuthToken("u1")
  /\ req.path = <<"s1">>
  /\ "s1" \in DOMAIN services
  /\ services["s1"].provider = "u1"
  /\ "u1" \in DOMAIN users
  /\ ~users["u1"].isActive
  /\ res.status = 401

(***************************************************************************)
(* C11: requireVerification, requireServiceProvider, requireCustomer and   *)
(* requireAdmin fail as authorize fails: with no identity resolved         *)
(* upstream the answer is 401, with an identity that lacks the required    *)
(* role or verification it is 403, and only otherwise is the next handler  *)
(* called.                                                                 *)
(***************************************************************************)
C11_GatesFailLikeAuthorize ==
  (Served /\ req.method = "USE") =>
    LET u == optionalAuth(req.hdr, req.cookie, users)
        gate == req.path[1]
        entitled ==
          IF gate = "requireVerification" THEN users[u].isVerified
          ELSE users[u].userType \in req.query.userTypes
    IN  IF u = "" THEN res.status = 401
        ELSE IF ~entitled THEN res.status = 403
        ELSE res.status = 200

(***************************************************************************)
(* C12: for a list request with page >= 1 and limit >= 1 the pagination    *)
(* metadata depends only on the number T of non-featured listings that     *)
(* match the filter: totalPages is the ceiling of T / limit, hasPrevPage   *)
(* is page > 1, hasNextPage is page < totalPages, which is page * limit    *)
(* < T; the featured matches do not count.                                 *)
(***************************************************************************)
C12_Page == IF has(req.query, "page") THEN req.query.page ELSE DefaultPage

C12_Limit == IF has(req.query, "limit") THEN req.query.limit ELSE DefaultLimit

\* T: the stored listings that match the filter and are not featured
C12_RegularMatches ==
  Cardinality({i \in DOMAIN services :
                 matchesFilter(services[i], req.query) /\ ~services[i].isFeatured})

C12_PaginationFromRegularCount ==
  (Served /\ req.method = "GET" /\ req.path = <<>> /\ res.status = 200) =>
    LET pg == res.pagination
    IN  /\ pg.totalPages * C12_Limit >= C12_RegularMatches
        /\ (pg.totalPages - 1) * C12_Limit < C12_RegularMatches
        /\ pg.hasPrevPage = (C12_Page > 1)
        /\ pg.hasNextPage = (C12_Page < pg.totalPages)
        /\ pg.hasNextPage = (C12_Page * C12_Limit < C12_RegularMatches)

\* the first of two pages of one listing each, while a featured listing matches too
C12_Witness ==
  /\ Served /\ req.method = "GET" /\ req.path = <<>> /\ res.status = 200
  /\ C12_Page = 1 /\ C12_Limit = 1
  /\ C12_RegularMatches = 2
  /\ \E i \in DOMAIN services : matchesFilter(services[i], req.query) /\ services[i].isFeatured
  /\ res.pagination.totalPages = 2
  /\ res.pagination.hasNextPage

(***************************************************************************)
(* C13: the featured portion of a list response holds only listings that   *)
(* match the filter, are flagged featured and whose feature expiry has not *)
(* passed at request time, and at most limit of them; a featured listing   *)
(* whose expiry is in the past is not in it.                               *)
(***************************************************************************)
C13_FeaturedPortionIsLive ==
  (Served /\ req.method = "GET" /\ req.path = <<>> /\ res.status = 200) =>
    LET featured == {n \in 1..Len(res.services) : res.services[n].doc.isFeatured}
    IN  /\ \A n \in featured :
             /\ matchesFilter(res.services[n].doc, req.query)
             /\ res.services[n].doc.featuredUntil >= now(services)
        /\ Cardinality(featured) <= C12_Limit

(***************************************************************************)
(* C14: the view counter is raised by a read, an increment in memory and   *)
(* a write of the result, not atomically: a save writes the value the      *)
(* handler read plus 1, so a view that no other write overlaps raises the  *)
(* stored counter by exactly 1, while two overlapping successful views of  *)
(* one listing can leave it only 1 higher: the counter is not always the   *)
(* initial value plus the number of completed successful views.            *)
(***************************************************************************)
\* client c completes a save of the view counter of listing i in this step
C14_Saves(c, i) ==
  /\ c \in DOMAIN calls
  /\ calls[c].op \in {"getById", "list"}
  /\ i \in calls[c].pending
  /\ i \notin calls'[c].pending
  /\ has(services, i)

C14_ViewCountIsReadIncrementWrite ==
  [][\A c \in Clients, i \in ServiceIds :
       C14_Saves(c, i) =>
         /\ services'[i].viewCount = calls[c].loaded[i].viewCount + 1
         /\ services[i].viewCount = calls[c].loaded[i].viewCount =>
              services'[i].viewCount = services[i].viewCount + 1]_vars

\* the successful views of listing i that have completed
C14_CompletedViews(i) ==
  {c \in DOMAIN calls :
     /\ calls[c].op \in {"getById", "list"}
     /\ calls[c].pc = "done"
     /\ calls[c].res.status = 200
     /\ i \in DOMAIN calls[c].loaded}

\* two views of the listing have completed with success, a getById among them, and
\* the counter, 0 at the start, is 1
C14_Witness ==
  /\ Cardinality(C14_CompletedViews(RacedId)) = 2
  /\ \E c \in C14_CompletedViews(RacedId) : calls[c].op = "getById"
  /\ has(services, RacedId)
  /\ services[RacedId].viewCount = 1

(***************************************************************************)
(* C17: however an owner's update interleaves with a delete of the same    *)
(* listing, the update answers 404 or answers success with the listing as  *)
(* stored after the update, never success without a listing; and an update *)
(* does not store again a listing that a completed delete removed.         *)
(***************************************************************************)
C17_UpdateNeverAnswersEmptySuccess ==
  [][/\ \A c \in DOMAIN calls' :
          (/\ calls'[c].op = "update"
           /\ calls'[c].pc = "done"
           /\ calls'[c].user = BaseListing.provider
           /\ \E d \in DOMAIN calls' : calls'[d].op = "delete") =>
            \/ calls'[c].res.status = 404
            \/ /\ calls'[c].res.status = 200
               /\ Len(calls'[c].res.services) = 1
               /\ c \notin DOMAIN calls \/ calls[c].pc = "done" \/
                    (/\ has(services', calls'[c].id)
                     /\ calls'[c].res.services[1].doc = services'[calls'[c].id])
     /\ DOMAIN services' \subseteq DOMAIN services]_vars

(***************************************************************************)
(* C15: a save of a user replaces the stored password with its hash        *)
(* exactly when the password was modified in that save, and otherwise      *)
(* leaves the stored hash as it was; so after every save comparePassword   *)
(* succeeds for the last password that was set.                            *)
(***************************************************************************)
\* document d is saved in this step
C15_Saved(d) ==
  /\ d \in DOMAIN calls /\ d \in DOMAIN calls'
  /\ calls[d].op = "user"
  /\ calls'[d].last = "save"
  /\ calls'[d] # calls[d]

C15_SaveHashesExactlyModifiedPassword ==
  [][\A d \in Documents :
       C15_Saved(d) =>
         LET u == calls[d].id
             lastSet == IF calls[d].modified THEN calls[d].password.plain
                        ELSE users[u].password.plain
         IN  /\ calls[d].modified =>
                  users'[u].password = bcryptHash(calls[d].password)
             /\ ~calls[d].modified => users'[u].password = users[u].password
             /\ comparePassword(users[u], users[u].password.plain) =>
                  comparePassword(users'[u], lastSet)]_vars

(***************************************************************************)
(* C16: no write of a provider sets the moderation-controlled fields from  *)
(* the payload.  An update leaves provider, verification flag, featured    *)
(* flag, feature expiry, rating and counters of every stored listing as    *)
(* they were; a create stores verification flag false and featured flag    *)
(* false whatever the payload holds; so with no moderation step every      *)
(* stored listing has verification flag false.                             *)
(***************************************************************************)
C16_ModerationPaths ==
  {"provider", "isVerified", "isFeatured", "featuredUntil", "qualityRating", "viewCount"}

C16_PayloadNeverSetsModerationFields ==
  [][/\ Serves({"PUT"}) =>
          \A i \in DOMAIN services :
            /\ i \in DOMAIN services'
            /\ \A k \in C16_ModerationPaths : services'[i][k] = services[i][k]
     /\ Serves({"POST"}) =>
          \A i \in DOMAIN services' \ DOMAIN services :
            /\ services'[i].isVerified = FALSE
            /\ services'[i].isFeatured = FALSE
     /\ \A i \in DOMAIN services' : services'[i].isVerified = FALSE]_vars

====
